---- MODULE Spec2Model ----
(***************************************************************************)
(* prime-post-backend: the analytics aggregation engine, its cache-aside   *)
(* accelerator (utils/cache on node-cache), the Engagement model with its  *)
(* invalidation hooks, the post controller and the engagement simulator.   *)
(*                                                                         *)
(* Time is counted in whole seconds (Date.now() / 1000); node-cache keeps  *)
(* expiry instants in milliseconds as now + ttl * 1000, so comparing       *)
(* instants in seconds is the same comparison on clock readings that are   *)
(* whole seconds.                                                          *)
(***************************************************************************)
EXTENDS Integers, Sequences, FiniteSets, TLC

VARIABLES
    cache,    \* node-cache's data: a function from the keys it holds to {v, t}
    now,      \* the clock, seconds
    posts,    \* Post collection: post id -> document or NoPost
    events,   \* Engagement collection: the set of its documents
    last,     \* the last operation as its caller saw it (observation record)
    stored,   \* history: key -> what the latest storing call stored, and whether since invalidated
    nops,     \* number of operations performed so far
    site,     \* the getOrSetCache call site, or the query, a run exercises
    cronTask, \* the simulator's cron task: "scheduled" or "stopped"
    ingested, \* history: post id -> the bag of increments written for it so far
    pending   \* upserts of overlapping ticks that the store has not finished

vars == <<cache, now, posts, events, last, stored, nops, site, cronTask, ingested, pending>>

(***************************************************************************)
(* Bounds of the model.                                                    *)
(***************************************************************************)
MaxOps == 5

(***************************************************************************)
(* JavaScript values that flow through the cache.                          *)
(***************************************************************************)
Undefined == [tag |-> "undefined"]
Num(n) == [tag |-> "number", n |-> n]
Obj(n) == [tag |-> "object", now |-> n]
Throw == [tag |-> "throw"]

\* `if (cached)`: JavaScript truthiness of a value.
Truthy(v) ==
    CASE v.tag = "undefined" -> FALSE
      [] v.tag = "number" -> v.n # 0
      [] OTHER -> TRUE

(***************************************************************************)
(* Cache keys are the `:`-separated segments of the key string.            *)
(***************************************************************************)
Users == {"u1", "u2"}
PostIds == {"p1", "p2"}

PerfKey(p) == <<"post", "performance", p>>
OptimalKey(u) == <<"optimalTimes", u>>
TrendsKey(u, period, gran, metric) == <<"trends", u, period, gran, metric>>
PlatformKey(u) == <<"platformPerf", u>>
TopPostsKey(u, limit) == <<"topPosts", u, limit>>
ComparisonKey(u, s, e) == <<"performanceComparison", u, s, e>>
DashboardKey(u, range) == <<"dashboard", u, range>>
TestKey == <<"test", "now">>
TestPattern == <<"test", "*">>

PerfTTL == 600
OptimalTTL == 3600
TrendsTTL == 900
PlatformTTL == 900
TopPostsTTL == 300
ComparisonTTL == 300
DashboardTTL == 300
TestTTL == 10

\* Every place of the source that calls getOrSetCache, as (key, ttlSeconds).
CallSites ==
    {[key |-> TestKey, ttl |-> TestTTL]}
    \cup {[key |-> PerfKey(p), ttl |-> PerfTTL] : p \in {"p1"}}
    \cup {[key |-> OptimalKey(u), ttl |-> OptimalTTL] : u \in {"u1"}}
    \cup {[key |-> TrendsKey(u, "7d", "daily", "engagement"), ttl |-> TrendsTTL] : u \in {"u1"}}
    \cup {[key |-> PlatformKey(u), ttl |-> PlatformTTL] : u \in {"u1"}}
    \cup {[key |-> TopPostsKey(u, "5"), ttl |-> TopPostsTTL] : u \in {"u1"}}
    \cup {[key |-> ComparisonKey(u, "3", "4"), ttl |-> ComparisonTTL] : u \in {"u1"}}
    \cup {[key |-> DashboardKey(u, "30d"), ttl |-> DashboardTTL] : u \in {"u1"}}

\* The pattern that covers a key's family: its last segment replaced by `*`.
Wild(key) == [i \in 1..Len(key) |-> IF i = Len(key) THEN "*" ELSE key[i]]

Keys ==
    LET ks == {s.key : s \in CallSites} \cup {PerfKey(p) : p \in PostIds}
    IN  ks \cup {Wild(k) : k \in ks}

(***************************************************************************)
(* node-cache as utils/cache uses it (stdTTL 0, deleteOnExpire default).   *)
(***************************************************************************)
NoEntry == [tag |-> "none"]
None == [tag |-> "none"]

\* A finite map without / with one key.
Drop(f, k) == [x \in DOMAIN f \ {k} |-> f[x]]
Put(f, k, v) == [x \in DOMAIN f \cup {k} |-> IF x = k THEN v ELSE f[x]]
At(f, k) == IF k \in DOMAIN f THEN f[k] ELSE NoEntry

\* A store whose entries never expire.
AliveForever(e, t) == TRUE

\* node-cache _check: an entry is dropped when `data.t !== 0 && data.t < Date.now()`.
Alive(e, t) == e.t = 0 \/ ~(e.t < t)

\* cache.get(key): the value, or undefined for a missing or expired key.
CacheGet(c, key, t) ==
    IF key \in DOMAIN c /\ Alive(c[key], t) THEN c[key].v ELSE Undefined

\* cache.get(key) deletes the key it finds expired.
CacheAfterGet(c, key, t) ==
    IF key \in DOMAIN c /\ ~Alive(c[key], t) THEN Drop(c, key) ELSE c

\* cache.set(key, data, ttlSeconds): ttl 0 means no expiry (t = 0).
CacheSet(c, key, v, ttl, t) ==
    Put(c, key, [v |-> v, t |-> IF ttl = 0 THEN 0 ELSE t + ttl])

\* delCache(key): cache.del(key) removes exactly the key it is given.
DelCacheOf(c, key) == Drop(c, key)

\* An accelerator that stores the outcome of fetchFn even when it threw.
GetOrSetCacheKeepsFailure(c, key, ttl, out, t) ==
    LET cached == CacheGet(c, key, t)
        c1 == CacheAfterGet(c, key, t)
    IN  IF Truthy(cached)
        THEN [cache |-> c1, ret |-> cached, computed |-> FALSE, err |-> FALSE]
        ELSE [cache |-> CacheSet(c1, key, IF out = Throw THEN Obj(0) ELSE out, ttl, t),
              ret |-> IF out = Throw THEN Undefined ELSE out,
              computed |-> TRUE, err |-> out = Throw]

\* getOrSetCache(key, ttlSeconds, fetchFn), fetchFn's outcome being `out`
\* (a value, or Throw): the cache afterwards, what the caller gets, and
\* whether fetchFn was invoked.
GetOrSetCache(c, key, ttl, out, t) ==
    LET cached == CacheGet(c, key, t)
        c1 == CacheAfterGet(c, key, t)
    IN  IF Truthy(cached)
        THEN [cache |-> c1, ret |-> cached, computed |-> FALSE, err |-> FALSE]
        ELSE IF out = Throw
        THEN [cache |-> c1, ret |-> Undefined, computed |-> TRUE, err |-> TRUE]
        ELSE [cache |-> CacheSet(c1, key, out, ttl, t), ret |-> out,
              computed |-> TRUE, err |-> FALSE]

(***************************************************************************)
(* Observation and history records.                                        *)
(***************************************************************************)
\* Whether the invalidation argument `arg` (a key or a `*` pattern) covers `key`.
Matches(arg, key) ==
    /\ Len(arg) = Len(key)
    /\ \A i \in 1..Len(arg) : arg[i] = "*" \/ arg[i] = key[i]

\* What one run of the simulator's callback did (none for other operations).
NoTick == [kind |-> "none", targets |-> {}, done |-> {}, failed |-> "none", logged |-> 0,
           writes |-> 0, after |-> "none", multiplier |-> <<>>]

NoOp == [op |-> "none", key |-> <<>>, at |-> 0, computed |-> FALSE, err |-> FALSE,
         out |-> Undefined, ret |-> Undefined, before |-> NoEntry, prior |-> None,
         changed |-> {}, prevChanged |-> {}, tick |-> NoTick,
         prevOp |-> "none", prevKey |-> <<>>, prevErr |-> FALSE, caller |-> "none"]

\* What the caller of getOrSetCache(key, ...) observed (`out` is what fetchFn
\* yields if invoked), with the cache entry and the history of the key as they
\* were when the call was made.
CallObs(op, key, out, r) ==
    [op |-> op, key |-> key, at |-> now, computed |-> r.computed, err |-> r.err,
     out |-> out, ret |-> r.ret, before |-> At(cache, key), prior |-> At(stored, key),
     changed |-> {}, prevChanged |-> last.changed, tick |-> NoTick,
     prevOp |-> last.op, prevKey |-> last.key, prevErr |-> last.err, caller |-> "none"]

PlainObs(op, key) ==
    [NoOp EXCEPT !.op = op, !.key = key, !.at = now, !.prevChanged = last.changed,
                 !.prevOp = last.op, !.prevKey = last.key, !.prevErr = last.err]

\* History after a call: a storing call replaces what is remembered for the key.
StoredAfterCall(key, ttl, r) ==
    IF r.computed /\ ~r.err
    THEN Put(stored, key, [v |-> r.ret, at |-> now, ttl |-> ttl, inval |-> FALSE])
    ELSE stored

\* History after an invalidation request: every key it covers is marked.
StoredAfterInval(arg) ==
    [k \in DOMAIN stored |-> IF Matches(arg, k)
                             THEN [stored[k] EXCEPT !.inval = TRUE] ELSE stored[k]]

(***************************************************************************)
(* The accelerator on its own: getOrSetCache, delCache, clearAllCache and  *)
(* the clock, called as the source calls them.                             *)
(***************************************************************************)
\* What fetchFn can yield at a call site: the services' fetch functions resolve
\* to objects and arrays or throw; a caller of the exported generic
\* getOrSetCache<T> (as scripts/test-cache is) may also resolve to a number.
Outcomes(s) ==
    IF s.key = TestKey THEN {Obj(1), Obj(2), Num(0), Throw} ELSE {Obj(1), Obj(2), Throw}

\* Clock readings at which some live entry's expiry makes a difference.
ClockReadings ==
    {now + 1} \cup
    {t \in {cache[k].t + d : k \in DOMAIN cache, d \in {-1, 0, 1}} : t > now}

AccelCall(out) ==
    LET r == GetOrSetCache(cache, site.key, site.ttl, out, now)
    IN  /\ nops < MaxOps
        /\ cache' = r.cache
        /\ last' = CallObs("getOrSetCache", site.key, out, r)
        /\ stored' = StoredAfterCall(site.key, site.ttl, r)
        /\ nops' = nops + 1
        /\ UNCHANGED <<now, posts, events, site, cronTask, ingested, pending>>

DelCache(key) ==
    /\ nops < MaxOps
    /\ cache' = DelCacheOf(cache, key)
    /\ last' = PlainObs("delCache", key)
    /\ stored' = StoredAfterInval(key)
    /\ nops' = nops + 1
    /\ UNCHANGED <<now, posts, events, site, cronTask, ingested, pending>>

\* clearAllCache(): cache.flushAll().
ClearAllCache ==
    /\ nops < MaxOps
    /\ cache' = <<>>
    /\ last' = PlainObs("clearAllCache", <<"*">>)
    /\ stored' = [k \in DOMAIN stored |-> [stored[k] EXCEPT !.inval = TRUE]]
    /\ nops' = nops + 1
    /\ UNCHANGED <<now, posts, events, site, cronTask, ingested, pending>>

Advance(t) ==
    /\ nops < MaxOps
    /\ now' = t
    /\ last' = PlainObs("advance", <<>>)
    /\ nops' = nops + 1
    /\ UNCHANGED <<cache, posts, events, stored, site, cronTask, ingested, pending>>

NoPost == [tag |-> "none"]

\* 1970-02-05 (a Thursday) 20:00:00 UTC.
T0 == 3096000

\* Bags as functions from their elements to counts.
BagAdd(b, x) == Put(b, x, IF x \in DOMAIN b THEN b[x] + 1 ELSE 1)

RECURSIVE BagOfMetrics(_)
BagOfMetrics(docs) ==
    IF docs = {} THEN <<>>
    ELSE LET d == CHOOSE x \in docs : TRUE
         IN  BagAdd(BagOfMetrics(docs \ {d}), d.metrics)

\* The process after start-up: startEngagementSimulator has scheduled the
\* task, no upsert is in flight, and what the store holds counts as ingested.
Boot ==
    /\ cronTask = "scheduled"
    /\ pending = {}
    /\ ingested = [p \in PostIds |-> BagOfMetrics({d \in events : d.postId = p})]

InitStore ==
    /\ posts = [p \in PostIds |-> NoPost]
    /\ events = {}

InitAccel ==
    /\ cache = <<>>
    /\ stored = <<>>
    /\ now = T0
    /\ last = NoOp
    /\ nops = 0
    /\ site \in CallSites
    /\ InitStore
    /\ Boot

NextAccel ==
    \/ \E out \in Outcomes(site) : AccelCall(out)
    \/ \E key \in {site.key, Wild(site.key)} : DelCache(key)
    \/ ClearAllCache
    \/ \E t \in ClockReadings : Advance(t)

SpecAccel == InitAccel /\ [][NextAccel]_vars

(***************************************************************************)
(* Exact arithmetic: JavaScript numbers that are not whole are kept as     *)
(* fractions in lowest terms.                                              *)
(***************************************************************************)
RECURSIVE Gcd(_, _)
Gcd(a, b) == IF b = 0 THEN a ELSE Gcd(b, a % b)

Abs(x) == IF x < 0 THEN -x ELSE x

F(n, d) ==
    LET g == Gcd(Abs(n), Abs(d))
        sgn == IF d < 0 THEN -1 ELSE 1
    IN  [n |-> sgn * (n \div g), d |-> sgn * (d \div g)]

FAdd(x, y) == F(x.n * y.d + y.n * x.d, x.d * y.d)
FMul(x, y) == F(x.n * y.n, x.d * y.d)
FDiv(x, y) == F(x.n * y.d, x.d * y.n)
FLeq(x, y) == x.n * y.d <= y.n * x.d
FMax(x, y) == IF FLeq(x, y) THEN y ELSE x

\* A rounding that takes x * m - 1/2 down to the next whole number.
RoundMulBelow(x, m) == (2 * x * m.n - m.d) \div (2 * m.d)

\* Math.round(x * m) for a whole x >= 0 and a fraction m >= 0: halves round up.
RoundMul(x, m) == (2 * x * m.n + m.d) \div (2 * m.d)

(***************************************************************************)
(* The Post and Engagement collections.                                    *)
(***************************************************************************)
Platforms == {"twitter"}
Statuses == {"draft", "published"}
NoDate == [tag |-> "none"]
Date(t) == [tag |-> "date", t |-> t]

SecondsPerHour == 3600
SecondsPerDay == 86400

\* Date.getUTCHours() and Date.getUTCDay() of an instant (1970-01-01 was a Thursday).
UTCHours(t) == (t \div SecondsPerHour) % 24
UTCDay(t) == (4 + (t \div SecondsPerDay)) % 7

Metrics == {"likes", "comments", "shares", "clicks", "impressions"}

RECURSIVE SumOver(_, _)
\* $sum of a field over a set of documents.
SumOver(docs, m) ==
    IF docs = {} THEN 0
    ELSE LET d == CHOOSE x \in docs : TRUE
         IN  d.metrics[m] + SumOver(docs \ {d}, m)

\* create: Post.create({ userId: id, ...payload }); the payload carries no publishedAt.
Create(p, u, platform, status) ==
    /\ nops < MaxOps
    /\ posts[p] = NoPost
    /\ posts' = [posts EXCEPT ![p] = [userId |-> u, platform |-> platform,
                                      status |-> status, publishedAt |-> NoDate]]
    /\ last' = [PlainObs("create", <<p>>) EXCEPT !.caller = u]
    /\ nops' = nops + 1
    /\ UNCHANGED <<cache, now, events, stored, site, cronTask, ingested, pending>>

\* deletePost, called by account u: 404 when the post is missing, else
\* Post.findByIdAndDelete(postId). The caller's id is read and not used.
DeletePost(u, p) ==
    /\ nops < MaxOps
    /\ posts' = [posts EXCEPT ![p] = NoPost]
    /\ last' = [PlainObs("deletePost", <<p>>) EXCEPT !.err = (posts[p] = NoPost),
                                                      !.caller = u]
    /\ nops' = nops + 1
    /\ UNCHANGED <<cache, now, events, stored, site, cronTask, ingested, pending>>

(***************************************************************************)
(* The engagement simulator.                                               *)
(***************************************************************************)
\* A boost that ends with the hour 16, at 17:00.
TimeMultiplierUntil17(t) == IF UTCHours(t) >= 9 /\ UTCHours(t) < 17 THEN F(14, 10) ELSE F(9, 10)

\* computeMultipliers(publishedAt) at instant t.
TimeMultiplier(t) == IF UTCHours(t) >= 9 /\ UTCHours(t) <= 17 THEN F(14, 10) ELSE F(9, 10)
DayMultiplier(t) == IF UTCDay(t) = 0 \/ UTCDay(t) = 6 THEN F(7, 10) ELSE F(1, 1)

\* Math.pow(2, Math.max(0, (30 - ageDays) / 30)) with ageDays = max(0, age):
\* 2 for an age of 0 (or a publishedAt in the future), 1 from 30 days on. The
\* powers in between are irrational and are kept out of the model's inputs.
AgeMultiplier(publishedAt, t) ==
    IF publishedAt = NoDate THEN F(1, 1)
    ELSE LET ageSec == IF t - publishedAt.t > 0 THEN t - publishedAt.t ELSE 0
         IN  CASE ageSec = 0 -> F(2, 1)
               [] ageSec >= 30 * SecondsPerDay -> F(1, 1)

Multiplier(publishedAt, t) ==
    FMul(FMul(TimeMultiplier(t), DayMultiplier(t)), AgeMultiplier(publishedAt, t))

\* The five rand(min, max) draws of one post in one tick, as
\* <<likes, comments, shares, clicks, impressions>>.
RandDraws == {<<11, 6, 6, 22, 111>>, <<0, 0, 0, 0, 100>>, <<50, 20, 15, 100, 1000>>}

Increment(draw, m) ==
    [likes |-> RoundMul(draw[1], m), comments |-> RoundMul(draw[2], m),
     shares |-> RoundMul(draw[3], m), clicks |-> RoundMul(draw[4], m),
     impressions |-> RoundMul(draw[5], m)]

\* An upsert whose filter is the post alone and that writes the hour and day
\* of the tick into the document it finds.
UpsertByPost(docs, p, inc, t) ==
    LET match == {d \in docs : d.postId = p}
    IN  IF match = {}
        THEN docs \cup {[id |-> <<p, t>>, postId |-> p, userId |-> posts[p].userId,
                         platform |-> posts[p].platform, timestamp |-> t,
                         hourOfDay |-> UTCHours(t), dayOfWeek |-> UTCDay(t),
                         metrics |-> inc]}
        ELSE LET d == CHOOSE x \in match : TRUE
             IN  (docs \ {d}) \cup
                 {[d EXCEPT !.metrics = [m \in Metrics |-> d.metrics[m] + inc[m]],
                            !.timestamp = t, !.hourOfDay = UTCHours(t),
                            !.dayOfWeek = UTCDay(t)]}

\* An upsert that $sets the metrics instead of adding to them.
UpsertOverwrite(docs, p, inc, t) ==
    LET match == {d \in docs : d.postId = p /\ d.hourOfDay = UTCHours(t)
                                /\ d.dayOfWeek = UTCDay(t)}
    IN  (docs \ match) \cup
        {[id |-> <<p, t>>, postId |-> p, userId |-> posts[p].userId,
          platform |-> posts[p].platform, timestamp |-> t,
          hourOfDay |-> UTCHours(t), dayOfWeek |-> UTCDay(t), metrics |-> inc]}

\* updateOne with upsert: the document the filter {postId, hourOfDay, dayOfWeek}
\* finds gets the $inc and the $set; when none matches, one is inserted.
Upsert(docs, p, inc, t) ==
    LET match == {d \in docs : d.postId = p /\ d.hourOfDay = UTCHours(t)
                                /\ d.dayOfWeek = UTCDay(t)}
    IN  IF match = {}
        THEN docs \cup {[id |-> <<p, t>>, postId |-> p, userId |-> posts[p].userId,
                         platform |-> posts[p].platform, timestamp |-> t,
                         hourOfDay |-> UTCHours(t), dayOfWeek |-> UTCDay(t),
                         metrics |-> inc]}
        ELSE LET d == CHOOSE x \in match : TRUE
             IN  (docs \ {d}) \cup
                 {[d EXCEPT !.metrics = [m \in Metrics |-> d.metrics[m] + inc[m]],
                            !.timestamp = t, !.userId = posts[p].userId,
                            !.platform = posts[p].platform]}

RECURSIVE BulkWrite(_, _, _, _)
\* Engagement.bulkWrite(operations): one upsert per published post.
BulkWrite(docs, ps, draw, t) ==
    IF ps = {} THEN docs
    ELSE LET p == CHOOSE x \in ps : TRUE
         IN  BulkWrite(Upsert(docs, p, Increment(draw[p], Multiplier(posts[p].publishedAt, t)), t),
                       ps \ {p}, draw, t)

Published == {p \in PostIds : posts[p] # NoPost /\ posts[p].status = "published"}

\* The ages at which Math.pow(2, ...) is rational; ticks are modelled at
\* instants where every published post has such an age.
AgeKnown(publishedAt, t) ==
    IF publishedAt = NoDate THEN TRUE
    ELSE t - publishedAt.t <= 0 \/ t - publishedAt.t >= 30 * SecondsPerDay

\* How a run of the callback can go for the published posts ps: all upserts
\* applied; Post.find throws; or bulkWrite throws at the upsert of `failed`.
\* bulkWrite is ordered (the default): the upserts before the failing one, in
\* the order Post.find returned the posts, are applied and the rest are not.
TickOk(ps) == [kind |-> "ok", done |-> ps, failed |-> "none"]
TickOutcomes(ps) ==
    {TickOk(ps),
     [kind |-> "lookupFailed", done |-> {}, failed |-> "none"]}
    \cup {[kind |-> "writeFailed", done |-> D, failed |-> f] :
            f \in ps, D \in SUBSET ps}

\* A task whose callback lets the error escape stops with the process.
AfterTickUncaught(task, outcome) == IF outcome.kind = "ok" THEN task ELSE "stopped"

\* try { ... } catch (err) { console.error(...) }: whatever the outcome, the
\* callback returns normally and the task stays scheduled.
AfterTick(task, outcome) == task

RECURSIVE IngestAll(_, _, _, _)
\* The history after the upserts of the posts ps.
IngestAll(h, ps, draw, t) ==
    IF ps = {} THEN h
    ELSE LET p == CHOOSE x \in ps : TRUE
             inc == Increment(draw[p], Multiplier(posts[p].publishedAt, t))
         IN  IngestAll([h EXCEPT ![p] = BagAdd(@, inc)], ps \ {p}, draw, t)

\* One run of the cron callback. Model.bulkWrite runs no document or query
\* middleware, so the save / findOneAndUpdate hooks of the Engagement schema do
\* not run for these writes.
Tick(draw, outcome) ==
    /\ nops < MaxOps
    /\ cronTask = "scheduled"
    /\ outcome \in TickOutcomes(Published)
    /\ outcome.failed \notin outcome.done
    /\ \A p \in Published : AgeKnown(posts[p].publishedAt, now)
    /\ events' = BulkWrite(events, outcome.done, draw, now)
    /\ ingested' = IngestAll(ingested, outcome.done, draw, now)
    /\ cronTask' = AfterTick(cronTask, outcome)
    /\ last' = [PlainObs("tick", <<>>) EXCEPT
                  !.changed = {p \in outcome.done :
                                 \E m \in Metrics : Increment(draw[p], Multiplier(posts[p].publishedAt, now))[m] # 0},
                  !.tick = [kind |-> outcome.kind, targets |-> Published, done |-> outcome.done,
                            failed |-> outcome.failed,
                            logged |-> IF outcome.kind = "ok" THEN 0 ELSE 1,
                            writes |-> IF outcome.kind = "lookupFailed" \/ Published = {}
                                       THEN 0 ELSE 1,
                            after |-> last.tick.kind,
                            multiplier |-> [p \in Published |-> Multiplier(posts[p].publishedAt, now)]]]
    /\ nops' = nops + 1
    /\ UNCHANGED <<cache, now, posts, stored, site, pending>>

(***************************************************************************)
(* The Engagement schema's post hooks, and post performance.               *)
(***************************************************************************)
\* A hook that builds another key than the one getPostPerformance uses.
HookKeyOther(p) == <<"performance", p>>

\* invalidateCache(doc), run after save / findOneAndUpdate / deleteOne /
\* deleteMany on the Engagement model.
HookKey(p) == PerfKey(p)

InvalidateCache(p) ==
    /\ nops < MaxOps
    /\ cache' = DelCacheOf(cache, HookKey(p))
    /\ last' = PlainObs("invalidateCache", PerfKey(p))
    /\ stored' = StoredAfterInval(PerfKey(p))
    /\ nops' = nops + 1
    /\ UNCHANGED <<now, posts, events, site, cronTask, ingested, pending>>

\* Sums that leave out the $match on postId.
PerfTotalsUnmatched(docs, p) == [m \in Metrics |-> SumOver(docs, m)]

\* The $match / $group of getPostPerformance: the sums over the post's events.
PerfTotals(docs, p) ==
    LET mine == {d \in docs : d.postId = p}
    IN  [m \in Metrics |-> SumOver(mine, m)]

\* The fetch function of getPostPerformance(postId) at instant t.
PerfCompute(p, t) ==
    IF posts[p] = NoPost THEN Throw
    ELSE LET data == PerfTotals(events, p)
             totalEngagement == data.likes + data.comments + data.shares
             engagementRate == IF data.impressions # 0
                               THEN F(totalEngagement * 100, data.impressions) ELSE F(0, 1)
             clickThroughRate == IF data.impressions # 0
                                 THEN F(data.clicks * 100, data.impressions) ELSE F(0, 1)
             publishedAt == IF posts[p].publishedAt # NoDate THEN posts[p].publishedAt.t ELSE t
             hoursSincePublished == FMax(F(1, 1), F(t - publishedAt, SecondsPerHour))
         IN  [tag |-> "object", postId |-> p,
              totalEngagement |-> totalEngagement,
              engagementRate |-> engagementRate,
              clickThroughRate |-> clickThroughRate,
              averageEngagementPerHour |-> FDiv(F(totalEngagement, 1), hoursSincePublished),
              performanceScore |->
                  FAdd(FAdd(FMul(engagementRate, F(4, 10)), FMul(clickThroughRate, F(3, 10))),
                       FMul(F(data.shares, 1), F(3, 10)))]

GetPostPerformance(p) ==
    LET out == PerfCompute(p, now)
        r == GetOrSetCache(cache, PerfKey(p), PerfTTL, out, now)
    IN  /\ nops < MaxOps
        /\ cache' = r.cache
        /\ last' = CallObs("getPostPerformance", PerfKey(p), out, r)
        /\ stored' = StoredAfterCall(PerfKey(p), PerfTTL, r)
        /\ nops' = nops + 1
        /\ UNCHANGED <<now, posts, events, site, cronTask, ingested, pending>>

Init ==
    /\ cache = <<>>
    /\ stored = <<>>
    /\ now = T0
    /\ last = NoOp
    /\ nops = 0
    /\ site = [key |-> <<>>, ttl |-> 0]
    /\ InitStore
    /\ Boot

Next ==
    \/ \E p \in PostIds, u \in Users, pf \in Platforms, st \in Statuses : Create(p, u, pf, st)
    \/ \E u \in Users, p \in PostIds : DeletePost(u, p)
    \/ \E draw \in [PostIds -> RandDraws] : Tick(draw, TickOk(Published))
    \/ \E p \in PostIds : InvalidateCache(p)
    \/ \E p \in PostIds : GetPostPerformance(p)
    \/ \E t \in ClockReadings : Advance(t)

Spec == Init /\ [][Next]_vars

(***************************************************************************)
(* Period comparison. Its instants are milliseconds counted from a base    *)
(* instant, the unit in which the code derives the previous period.        *)
(***************************************************************************)
MaxInstant == 3
MaxCalls == 2

\* The $match / $group / $project of makePipeline(from, to): the sums over the
\* account's events with from <= timestamp <= to (all 0 when none matches).
WindowTotals(docs, u, from, to) ==
    LET hit == {d \in docs : d.userId = u /\ d.timestamp >= from /\ d.timestamp <= to}
    IN  [totalEngagement |-> SumOver(hit, "likes") + SumOver(hit, "comments")
                               + SumOver(hit, "shares"),
         likes |-> SumOver(hit, "likes"), comments |-> SumOver(hit, "comments"),
         shares |-> SumOver(hit, "shares"), clicks |-> SumOver(hit, "clicks"),
         impressions |-> SumOver(hit, "impressions")]

\* A growth that divides by max(prev, 1), as the trend series does.
CalcGrowthClamped(curr, prev) == F((curr - prev) * 100, IF prev > 1 THEN prev ELSE 1)

\* calcGrowth(curr, prev).
CalcGrowth(curr, prev) ==
    IF prev = 0 THEN (IF curr > 0 THEN F(100, 1) ELSE F(0, 1))
    ELSE F((curr - prev) * 100, prev)

\* A previous period that ends at `start` itself.
PreviousPeriodTouching(start, end) == [start |-> start - (end - start), end |-> start]

\* diff, prevEnd and prevStart: the period of the same length that ends one
\* millisecond before `start`.
PreviousPeriod(start, end) ==
    LET diff == end - start
        prevEnd == start - 1
    IN  [start |-> prevEnd - diff, end |-> prevEnd]

\* The fetch function of getPerformanceComparison(userId, startDate, endDate).
ComparisonCompute(u, start, end) ==
    LET prevEnd == PreviousPeriod(start, end).end
        prevStart == PreviousPeriod(start, end).start
        current == WindowTotals(events, u, start, end)
        previous == WindowTotals(events, u, prevStart, prevEnd)
    IN  [tag |-> "object",
         currentPeriod |-> [startDate |-> start, endDate |-> end, totals |-> current],
         previousPeriod |-> [startDate |-> prevStart, endDate |-> prevEnd, totals |-> previous],
         growth |-> [engagement |-> CalcGrowth(current.totalEngagement, previous.totalEngagement),
                     clicks |-> CalcGrowth(current.clicks, previous.clicks),
                     impressions |-> CalcGrowth(current.impressions, previous.impressions)]]

GetPerformanceComparison(u, start, end) ==
    LET key == ComparisonKey(u, ToString(start), ToString(end))
        out == ComparisonCompute(u, start, end)
        r == GetOrSetCache(cache, key, ComparisonTTL, out, now)
    IN  /\ nops < MaxCalls
        /\ cache' = r.cache
        /\ last' = CallObs("getPerformanceComparison", key, out, r)
        /\ stored' = StoredAfterCall(key, ComparisonTTL, r)
        /\ nops' = nops + 1
        /\ UNCHANGED <<now, posts, events, site, cronTask, ingested, pending>>

\* Engagement documents as the simulator leaves them: one per post and hour
\* bucket, holding the increments of the draws at the (off-peak weekday)
\* multiplier 0.9.
Doc(p, u, t, hour, day, draw) ==
    [id |-> <<p, t>>, postId |-> p, userId |-> u, platform |-> "twitter", timestamp |-> t,
     hourOfDay |-> hour, dayOfWeek |-> day, metrics |-> Increment(draw, F(9, 10))]

CmpDraws == {<<33, 11, 11, 22, 111>>, <<11, 6, 6, 22, 111>>}

InitCmp ==
    /\ cache = <<>>
    /\ stored = <<>>
    /\ now = MaxInstant
    /\ last = NoOp
    /\ nops = 0
    /\ site = [key |-> <<>>, ttl |-> 0]
    /\ \E owner \in Users :
        /\ posts = [p \in PostIds |-> [userId |-> IF p = "p1" THEN "u1" ELSE owner,
                                       platform |-> "twitter", status |-> "published",
                                       publishedAt |-> NoDate]]
        /\ \E d1 \in {{}} \cup {{Doc("p1", "u1", t, 20, 4, w)} : t \in 1..MaxInstant, w \in CmpDraws},
              d2 \in {{}} \cup {{Doc("p2", owner, t, 20, 4, <<11, 6, 6, 22, 111>>)} : t \in 1..MaxInstant} :
                events = d1 \cup d2
    /\ Boot

NextCmp ==
    \E s \in 1..MaxInstant, e \in 1..MaxInstant : GetPerformanceComparison("u1", s, e)

SpecCmp == InitCmp /\ [][NextCmp]_vars

(***************************************************************************)
(* Optimal posting times. Instants are seconds, as in Spec. The recency    *)
(* weight 2^((30 - ageInDays)/30) is rational at the ages 0 and 30 days,   *)
(* which are the ages of the events drawn here.                            *)
(***************************************************************************)
WindowDays == 30

\* JavaScript numbers: fractions, NaN (0/0) and Infinity (x/0, x > 0).
NaN == [n |-> 0, d |-> 0]
Infinity == [n |-> 1, d |-> 0]
JsDiv(x, y) ==
    IF x.d = 0 \/ y.d = 0 THEN NaN
    ELSE IF y.n = 0 THEN (IF x.n = 0 THEN NaN ELSE Infinity)
    ELSE FDiv(x, y)
JsMul(x, y) ==
    IF x = NaN \/ y = NaN THEN NaN
    ELSE IF x.d = 0 \/ y.d = 0 THEN (IF x.n = 0 \/ y.n = 0 THEN NaN ELSE Infinity)
    ELSE FMul(x, y)
JsMin(x, y) == IF x.d = 0 \/ y.d = 0 THEN NaN ELSE IF FLeq(x, y) THEN x ELSE y

\* $pow: [2, (30 - ageInDays)/30].
Weight(ageSec) ==
    CASE ageSec = 0 -> 2
      [] ageSec = WindowDays * SecondsPerDay -> 1

\* totalEngagement * weight of one event, read at instant t.
WeightedEngagement(d, t) ==
    LET e == d.metrics.likes + d.metrics.comments + d.metrics.shares
    IN  IF e = 0 THEN 0 ELSE e * Weight(t - d.timestamp)

RECURSIVE SumWeighted(_, _, _)
\* The sum of the k-th powers (k = 1, 2) of the weighted values of docs.
SumWeighted(docs, t, k) ==
    IF docs = {} THEN 0
    ELSE LET d == CHOOSE x \in docs : TRUE
             v == WeightedEngagement(d, t)
         IN  (IF k = 1 THEN v ELSE v * v) + SumWeighted(docs \ {d}, t, k)

\* The $match, $group and the two $project stages: one row per
\* (dayOfWeek, hourOfDay) of the account's events of the last 30 days.
\* v <= avg + 3*stdDevPop is decided as n*v <= S or (n*v - S)^2 <= 9*(n*Q - S^2),
\* S and Q the sums of the values and of their squares.
OptimalRows(docs, u, t) ==
    LET hit == {d \in docs : d.userId = u /\ d.timestamp >= t - WindowDays * SecondsPerDay}
        ids == {<<d.dayOfWeek, d.hourOfDay>> : d \in hit}
        Row(id) ==
            LET grp == {d \in hit : <<d.dayOfWeek, d.hourOfDay>> = id}
                n == Cardinality(grp)
                S == SumWeighted(grp, t, 1)
                Q == SumWeighted(grp, t, 2)
                kept == {d \in grp :
                           LET v == WeightedEngagement(d, t)
                           IN  n * v <= S \/ (n * v - S) * (n * v - S) <= 9 * (n * Q - S * S)}
            IN  [dayOfWeek |-> id[1], hour |-> id[2], sampleSize |-> n,
                 avgWeighted |-> F(S, n),
                 filteredAvg |-> F(SumWeighted(kept, t, 1), Cardinality(kept))]
    IN  {Row(id) : id \in ids}

\* $sort {filteredAvg: -1} and $limit 5: every order the sort may produce
\* (rows of equal filteredAvg come in either order).
MaxSlots == 5
SortedRows(rows) ==
    LET n == Cardinality(rows)
        k == IF n < MaxSlots THEN n ELSE MaxSlots
        all == {s \in [1..n -> rows] :
                  /\ \A i, j \in 1..n : i # j => s[i] # s[j]
                  /\ \A i \in 1..n : \A j \in i..n : FLeq(s[j].filteredAvg, s[i].filteredAvg)}
    IN  {SubSeq(s, 1, k) : s \in all}

RECURSIVE MaxOf(_)
\* Math.max over the filteredAvg of a non-empty array of rows.
MaxOf(data) ==
    IF Len(data) = 1 THEN data[1].filteredAvg
    ELSE FMax(data[1].filteredAvg, MaxOf(Tail(data)))

\* The mapping of the aggregated rows to the returned slots.
OptimalSlots(data) ==
    IF Len(data) = 0 THEN [tag |-> "array", items |-> <<>>]
    ELSE LET maxEngagement == MaxOf(data)
         IN  [tag |-> "array",
              items |-> [i \in 1..Len(data) |->
                  [dayOfWeek |-> data[i].dayOfWeek, hour |-> data[i].hour,
                   averageEngagement |-> data[i].filteredAvg,
                   sampleSize |-> data[i].sampleSize,
                   confidenceScore |->
                       JsMul(JsMin(F(1, 1), F(data[i].sampleSize, 10)),
                             JsDiv(data[i].filteredAvg, maxEngagement))]]]

CalculateOptimalPostingTimes(u) ==
    \E data \in SortedRows(OptimalRows(events, u, now)) :
        LET key == OptimalKey(u)
            out == OptimalSlots(data)
            r == GetOrSetCache(cache, key, OptimalTTL, out, now)
        IN  /\ nops < MaxCalls
            /\ cache' = r.cache
            /\ last' = CallObs("calculateOptimalPostingTimes", key, out, r)
            /\ stored' = StoredAfterCall(key, OptimalTTL, r)
            /\ nops' = nops + 1
            /\ UNCHANGED <<now, posts, events, site, cronTask, ingested, pending>>

OptDraws == {<<0, 0, 0, 0, 100>>, <<11, 6, 6, 22, 111>>}
OptAges == {0, WindowDays, WindowDays + 1}

InitOpt ==
    /\ cache = <<>>
    /\ stored = <<>>
    /\ now = T0
    /\ last = NoOp
    /\ nops = 0
    /\ site = [key |-> <<>>, ttl |-> 0]
    /\ \E owner \in Users :
        /\ posts = [p \in PostIds |-> [userId |-> IF p = "p1" THEN "u1" ELSE owner,
                                       platform |-> "twitter", status |-> "published",
                                       publishedAt |-> NoDate]]
        /\ \E pick \in [PostIds \X OptAges -> {<<>>} \cup OptDraws] :
            events = {Doc(x[1], posts[x[1]].userId, T0 - x[2] * SecondsPerDay,
                          UTCHours(T0 - x[2] * SecondsPerDay),
                          UTCDay(T0 - x[2] * SecondsPerDay), pick[x]) :
                      x \in {y \in PostIds \X OptAges : pick[y] # <<>>}}
    /\ Boot

NextOpt == \E u \in Users : CalculateOptimalPostingTimes(u)

SpecOpt == InitOpt /\ [][NextOpt]_vars

(***************************************************************************)
(* Engagement trends: the controller getEngagmentTrends and the service    *)
(* calculateEngagementTrends. Instants are seconds, as in Spec. A date     *)
(* string of $dateToString is kept as its format and the number of the     *)
(* hour, day or week it names; strings of one format sort as these numbers.*)
(***************************************************************************)
AllowedGran == {"hourly", "daily", "weekly"}
AllowedMetric == {"likes", "comments", "shares", "clicks", "impressions", "engagement"}

\* The controller's reading of the query: an unknown granularity becomes
\* "daily", an unknown metric "engagement".
Gran(granStr) == IF granStr \in AllowedGran THEN granStr ELSE "daily"
Met(metricStr) == IF metricStr \in AllowedMetric THEN metricStr ELSE "engagement"

\* `let days = 7; if (period.endsWith("d")) days = parseInt(period.slice(0, -1))`
\* on the period strings of the model.
DefaultDays == 7
ParseDays(period) ==
    CASE period = "1d" -> 1
      [] period = "7d" -> 7
      [] period = "30d" -> 30
      [] period = "90d" -> 90
      [] OTHER -> DefaultDays

\* $dateToString at the granularity's format: "%Y-%m-%dT%H:00:00" names the
\* hour, "%Y-%m-%d" the day, "%Y-%U" the week of the year (weeks start on
\* Sunday; instants of the model lie in 1970, whose 1 January is day 0).
DateToString(gran, t) ==
    [format |-> gran,
     index |-> CASE gran = "hourly" -> t \div SecondsPerHour
                 [] gran = "weekly" -> ((t \div SecondsPerDay) + 7 - UTCDay(t)) \div 7
                 [] OTHER -> t \div SecondsPerDay]
EmptyString == [format |-> "", index |-> 0]

\* The projected value of one event: a metric, or likes + comments + shares.
TrendValue(d, metric) ==
    IF metric = "engagement" THEN d.metrics.likes + d.metrics.comments + d.metrics.shares
    ELSE d.metrics[metric]

RECURSIVE TrendSum(_, _)
TrendSum(docs, metric) ==
    IF docs = {} THEN 0
    ELSE LET d == CHOOSE x \in docs : TRUE
         IN  TrendValue(d, metric) + TrendSum(docs \ {d}, metric)

RECURSIVE SortById(_)
\* $sort {_id: 1}: the groups in ascending order of their date string.
SortById(groups) ==
    IF groups = {} THEN <<>>
    ELSE LET g == CHOOSE x \in groups : \A y \in groups : x.id.index <= y.id.index
         IN  <<g>> \o SortById(groups \ {g})

RECURSIVE SeqTotal(_)
SeqTotal(rows) == IF rows = <<>> THEN 0 ELSE rows[1].total + SeqTotal(Tail(rows))

\* The aggregation: $match, $group by date string, $sort, and the moving
\* average over the current and the six preceding groups.
MovingWindow == 6
TrendRows(docs, u, t, days, gran, metric) ==
    LET hit == {d \in docs : d.userId = u /\ d.timestamp >= t - days * SecondsPerDay}
        ids == {DateToString(gran, d.timestamp) : d \in hit}
        groups == {[id |-> id,
                    total |-> TrendSum({d \in hit : DateToString(gran, d.timestamp) = id}, metric),
                    count |-> Cardinality({d \in hit : DateToString(gran, d.timestamp) = id})]
                   : id \in ids}
        sorted == SortById(groups)
    IN  [i \in 1..Len(sorted) |->
            LET lo == IF i > MovingWindow THEN i - MovingWindow ELSE 1
            IN  [id |-> sorted[i].id, total |-> sorted[i].total, count |-> sorted[i].count,
                 movingAvg |-> F(SeqTotal(SubSeq(sorted, lo, i)), i - lo + 1)]]

\* `growth`: 0 for fewer than two groups, else the change from the first to
\* the last group over max(first, 1), in percent.
TrendGrowth(result) ==
    IF Len(result) >= 2
    THEN LET prevTotal == result[1].total
             currTotal == result[Len(result)].total
         IN  F((currTotal - prevTotal) * 100, IF prevTotal > 1 THEN prevTotal ELSE 1)
    ELSE F(0, 1)

RECURSIVE TrendPeak(_, _)
\* result.reduce((prev, curr) => curr.total > prev.total ? curr : prev, init).
TrendPeak(result, prev) ==
    IF result = <<>> THEN prev
    ELSE TrendPeak(Tail(result), IF result[1].total > prev.total THEN result[1] ELSE prev)

\* The fetch function of calculateEngagementTrends at instant t.
TrendsCompute(u, period, gran, metric, t) ==
    LET result == TrendRows(events, u, t, ParseDays(period), gran, metric)
        peak == TrendPeak(result, [id |-> EmptyString, total |-> 0])
    IN  [tag |-> "object",
         data |-> [i \in 1..Len(result) |->
                     [date |-> result[i].id, value |-> result[i].total,
                      movingAvg |-> result[i].movingAvg]],
         summary |-> [total |-> SeqTotal(result),
                      average |-> F(SeqTotal(result), IF Len(result) > 1 THEN Len(result) ELSE 1),
                      growth |-> TrendGrowth(result),
                      peak |-> [date |-> peak.id, value |-> peak.total]]]

\* GET /analytics/trends?period=&granularity=&metric= for the signed-in user u,
\* the query being the one held in `site`.
GetEngagmentTrends(u) ==
    LET gran == Gran(site.granularity)
        met == Met(site.metric)
        key == TrendsKey(u, site.period, gran, met)
        out == TrendsCompute(u, site.period, gran, met, now)
        r == GetOrSetCache(cache, key, TrendsTTL, out, now)
    IN  /\ nops < MaxCalls
        /\ cache' = r.cache
        /\ last' = CallObs("getEngagmentTrends", key, out, r)
        /\ stored' = StoredAfterCall(key, TrendsTTL, r)
        /\ nops' = nops + 1
        /\ UNCHANGED <<now, posts, events, site, cronTask, ingested, pending>>

TrendDraws == {<<0, 0, 0, 0, 100>>, <<11, 6, 6, 22, 111>>, <<50, 20, 15, 100, 1000>>}
TrendAges == {0, 1, 2}
TrendQueries ==
    [key : {<<>>}, ttl : {0}, period : {"1d", "7d", "30d", "week"},
     granularity : {"hourly", "daily", "weekly", "monthly"},
     metric : {"engagement", "clicks", "views"}]

InitTrend ==
    /\ cache = <<>>
    /\ stored = <<>>
    /\ now = T0
    /\ last = NoOp
    /\ nops = 0
    /\ site \in TrendQueries
    /\ \E owner \in Users :
        /\ posts = [p \in PostIds |-> [userId |-> IF p = "p1" THEN "u1" ELSE owner,
                                       platform |-> "twitter", status |-> "published",
                                       publishedAt |-> NoDate]]
        /\ \E pick \in [TrendAges -> {<<>>} \cup TrendDraws], other \in BOOLEAN :
            events = {Doc("p1", "u1", T0 - a * SecondsPerDay, UTCHours(T0 - a * SecondsPerDay),
                          UTCDay(T0 - a * SecondsPerDay), pick[a]) :
                      a \in {b \in TrendAges : pick[b] # <<>>}}
                     \cup (IF other
                           THEN {Doc("p2", owner, T0 - SecondsPerDay, UTCHours(T0 - SecondsPerDay),
                                     UTCDay(T0 - SecondsPerDay), <<11, 6, 6, 22, 111>>)}
                           ELSE {})
    /\ Boot

NextTrend == GetEngagmentTrends("u1")

SpecTrend == InitTrend /\ [][NextTrend]_vars

(***************************************************************************)
(* The simulator on its own: ticks at several hours and days of one week,  *)
(* over posts with and without publishedAt, with the failures the store    *)
(* can answer a tick with.                                                 *)
(***************************************************************************)
MaxSteps == 3

\* Offsets from T0 (Thursday 20:00) in half hours: Friday 09:00, 17:30 and
\* 18:00, Saturday 10:00, Sunday 20:00, and Thursday 20:00 of the next week.
SimHalfHours == {0, 26, 43, 44, 76, 144, 336}
SimInstants == {T0 + h * (SecondsPerHour \div 2) : h \in SimHalfHours}
SimDraws == {<<11, 6, 6, 22, 111>>, <<50, 20, 15, 100, 1000>>}

InitSim ==
    /\ cache = <<>>
    /\ stored = <<>>
    /\ last = NoOp
    /\ nops = 0
    /\ site = [key |-> <<>>, ttl |-> 0]
    /\ events = {}
    /\ now \in SimInstants
    /\ \E at \in {NoDate, Date(now), Date(now - 30 * SecondsPerDay), Date(now + 30 * SecondsPerDay)},
          second \in {NoPost,
                      [userId |-> "u2", platform |-> "twitter", status |-> "published",
                       publishedAt |-> NoDate],
                      [userId |-> "u2", platform |-> "twitter", status |-> "draft",
                       publishedAt |-> NoDate]} :
        posts = [p \in PostIds |->
                   IF p = "p1"
                   THEN [userId |-> "u1", platform |-> "twitter", status |-> "published",
                         publishedAt |-> at]
                   ELSE second]
    /\ Boot

NextSim ==
    /\ nops < MaxSteps
    /\ \/ \E w \in SimDraws, outcome \in TickOutcomes(Published) :
            Tick([p \in PostIds |-> w], outcome)
       \/ \E t \in {x \in SimInstants : x > now} : Advance(t)
       \/ \E p \in Published : GetPostPerformance(p)

SpecSim == InitSim /\ [][NextSim]_vars

(***************************************************************************)
(* Overlapping ticks. node-cron fires the callback every 30 seconds whether *)
(* or not the previous run has returned, and the store works through each   *)
(* run's bulkWrite one upsert at a time. An upsert that finds a document    *)
(* updates it atomically; one that finds none inserts a new document, and   *)
(* between its lookup and its insert other upserts may run: the collection  *)
(* has no unique index on {postId, hourOfDay, dayOfWeek}.                   *)
(***************************************************************************)
TickPeriod == 30

\* The documents the filter of an upsert for post p at instant t matches.
UpsertMatch(docs, p, t) ==
    {d \in docs : d.postId = p /\ d.hourOfDay = UTCHours(t) /\ d.dayOfWeek = UTCDay(t)}

\* The cron callback up to its call of bulkWrite: the operations it hands to
\* the store, numbered in the order of the array. The history takes the
\* increments here, when they are issued.
TickStart(w, order) ==
    /\ cronTask = "scheduled"
    /\ order \in [1..Cardinality(Published) -> Published]
    /\ \A i, j \in 1..Cardinality(Published) : i # j => order[i] # order[j]
    /\ \A o \in pending : o.t # now
    /\ pending' = pending \cup
         {[tick |-> now, seq |-> i, postId |-> order[i], t |-> now,
           inc |-> Increment(w, Multiplier(posts[order[i]].publishedAt, now)),
           phase |-> "sent"] : i \in 1..Cardinality(Published)}
    /\ ingested' = [p \in PostIds |->
                       IF p \in Published
                       THEN BagAdd(ingested[p], Increment(w, Multiplier(posts[p].publishedAt, now)))
                       ELSE ingested[p]]
    /\ last' = PlainObs("tickStart", <<>>)
    /\ nops' = nops + 1
    /\ UNCHANGED <<cache, now, posts, events, stored, site, cronTask>>

\* The operation the store works on for a run: the first one not yet done.
FirstOfRun(o) == \A x \in pending : x.tick = o.tick => x.seq >= o.seq

\* The store looks the filter up: a document found is updated at once.
StoreFind(o) ==
    /\ o \in pending /\ FirstOfRun(o) /\ o.phase = "sent"
    /\ IF UpsertMatch(events, o.postId, o.t) # {}
       THEN /\ events' = Upsert(events, o.postId, o.inc, o.t)
            /\ pending' = pending \ {o}
       ELSE /\ pending' = (pending \ {o}) \cup {[o EXCEPT !.phase = "inserting"]}
            /\ UNCHANGED events
    /\ last' = PlainObs("storeFind", <<o.postId>>)
    /\ UNCHANGED <<cache, now, posts, stored, nops, site, cronTask, ingested>>

\* The store inserts the document of an upsert whose lookup found none.
StoreInsert(o) ==
    /\ o \in pending /\ FirstOfRun(o) /\ o.phase = "inserting"
    /\ events' = events \cup
         {[id |-> <<o.postId, o.t>>, postId |-> o.postId, userId |-> posts[o.postId].userId,
           platform |-> posts[o.postId].platform, timestamp |-> o.t,
           hourOfDay |-> UTCHours(o.t), dayOfWeek |-> UTCDay(o.t), metrics |-> o.inc]}
    /\ pending' = pending \ {o}
    /\ last' = PlainObs("storeInsert", <<o.postId>>)
    /\ UNCHANGED <<cache, now, posts, stored, nops, site, cronTask, ingested>>

InitOverlap ==
    /\ cache = <<>>
    /\ stored = <<>>
    /\ last = NoOp
    /\ nops = 0
    /\ site = [key |-> <<>>, ttl |-> 0]
    /\ events = {}
    /\ now = T0
    /\ \E second \in {NoPost, [userId |-> "u2", platform |-> "twitter", status |-> "published",
                               publishedAt |-> NoDate]} :
        posts = [p \in PostIds |->
                   IF p = "p1"
                   THEN [userId |-> "u1", platform |-> "twitter", status |-> "published",
                         publishedAt |-> NoDate]
                   ELSE second]
    /\ Boot

NextOverlap ==
    \/ /\ nops < MaxSteps
       /\ \E w \in SimDraws, order \in [1..Cardinality(Published) -> Published] :
            TickStart(w, order)
    \/ /\ nops < MaxSteps
       /\ Advance(now + TickPeriod)
    \/ \E o \in pending : StoreFind(o)
    \/ \E o \in pending : StoreInsert(o)

SpecOverlap == InitOverlap /\ [][NextOverlap]_vars

(***************************************************************************)
(* The post controller: create, updatePost, deletePost and getPostById,    *)
(* called by either account for either post.                               *)
(***************************************************************************)
\* The values updatePostSchema accepts for status.
UpdateStatuses == {"draft", "scheduled", "published", "failed"}

\* The request bodies of updatePost, as the fields they carry: none (rejected
\* by .min(1)), a status, a publishedAt, or both.
UpdatePayloads(t) ==
    LET dates == {Date(t), Date(t - SecondsPerDay)}
    IN  {<<>>}
        \cup {[status |-> st] : st \in UpdateStatuses}
        \cup {[publishedAt |-> at] : at \in dates}
        \cup {[status |-> st, publishedAt |-> at] : st \in UpdateStatuses, at \in dates}

\* Post.findByIdAndUpdate(postId, payload, { new: true }): every field of the
\* payload replaces the field of the document.
ApplyUpdate(post, payload) ==
    [k \in DOMAIN post |-> IF k \in DOMAIN payload THEN payload[k] ELSE post[k]]

\* updatePost, called by account u: 400 when the body fails updatePostSchema,
\* 404 when the post is missing, else the payload is written to the post. The
\* caller's id is read and not used.
UpdatePost(u, p, payload) ==
    /\ nops < MaxOps
    /\ payload \in UpdatePayloads(now)
    /\ posts' = IF DOMAIN payload = {} \/ posts[p] = NoPost
                THEN posts
                ELSE [posts EXCEPT ![p] = ApplyUpdate(posts[p], payload)]
    /\ last' = [PlainObs("updatePost", <<p>>) EXCEPT
                  !.err = (DOMAIN payload = {} \/ posts[p] = NoPost),
                  !.caller = u,
                  !.ret = IF DOMAIN payload = {} \/ posts[p] = NoPost
                          THEN Undefined ELSE ApplyUpdate(posts[p], payload)]
    /\ nops' = nops + 1
    /\ UNCHANGED <<cache, now, events, stored, site, cronTask, ingested, pending>>

\* getPostById, called by account u: 404 when the post is missing, else the
\* post. The caller's id is read and not used.
GetPostById(u, p) ==
    /\ nops < MaxOps
    /\ last' = [PlainObs("getPostById", <<p>>) EXCEPT
                  !.err = (posts[p] = NoPost),
                  !.caller = u,
                  !.ret = IF posts[p] = NoPost THEN Undefined ELSE posts[p]]
    /\ nops' = nops + 1
    /\ UNCHANGED <<cache, now, posts, events, stored, site, cronTask, ingested, pending>>

InitPosts ==
    /\ cache = <<>>
    /\ stored = <<>>
    /\ now = T0
    /\ last = NoOp
    /\ nops = 0
    /\ site = [key |-> <<>>, ttl |-> 0]
    /\ InitStore
    /\ Boot

NextPosts ==
    \/ \E p \in PostIds, u \in Users, pf \in Platforms, st \in Statuses : Create(p, u, pf, st)
    \/ \E u \in Users, p \in PostIds, payload \in UpdatePayloads(now) : UpdatePost(u, p, payload)
    \/ \E u \in Users, p \in PostIds : DeletePost(u, p)
    \/ \E u \in Users, p \in PostIds : GetPostById(u, p)

SpecPosts == InitPosts /\ [][NextPosts]_vars

(***************************************************************************)
(* Listing posts page by page: a client calls getAllPosts with the cursor   *)
(* of the previous answer until a page comes back empty, while the posts    *)
(* do not change. `site` holds the client's query, its cursor and the posts *)
(* it has been given so far.                                                *)
(***************************************************************************)
\* The order of the ObjectIds of the posts.
IdOrder(p) == IF p = "p1" THEN 1 ELSE 2

\* The ids that match the filter: the caller's posts, of the status asked for
\* if any, after the cursor if any ({ _id: { $gt: cursor } }).
ListFilter(u, status, cursor) ==
    {p \in PostIds : /\ posts[p] # NoPost
                     /\ posts[p].userId = u
                     /\ (status = "any" \/ posts[p].status = status)
                     /\ (cursor = "none" \/ IdOrder(p) > IdOrder(cursor))}

RECURSIVE SortIds(_, _)
\* .sort({ _id: 1 }) when ascending, .sort({ _id: -1 }) otherwise.
SortIds(ids, ascending) ==
    IF ids = {} THEN <<>>
    ELSE LET first == CHOOSE p \in ids : \A q \in ids :
                         IF ascending THEN IdOrder(p) <= IdOrder(q)
                         ELSE IdOrder(p) >= IdOrder(q)
         IN  <<first>> \o SortIds(ids \ {first}, ascending)

\* Post.find(filter).sort(sort === "-createdAt" ? { _id: 1 } : { _id: -1 }).limit(limit)
ListPage(u, status, sort, limit, cursor) ==
    LET sorted == SortIds(ListFilter(u, status, cursor), sort = "-createdAt")
    IN  SubSeq(sorted, 1, IF Len(sorted) < limit THEN Len(sorted) ELSE limit)

\* posts.length ? posts[posts.length - 1]._id : null
NextCursor(page) == IF page = <<>> THEN "none" ELSE page[Len(page)]

\* One call of getAllPosts by the client, with the cursor it holds.
GetAllPosts ==
    /\ ~site.finished
    /\ LET page == ListPage(site.user, site.status, site.sort, site.limit, site.cursor)
       IN  /\ site' = [site EXCEPT !.cursor = NextCursor(page),
                                   !.seen = @ \o page,
                                   !.finished = (page = <<>>)]
           /\ last' = [PlainObs("getAllPosts", <<>>) EXCEPT !.caller = site.user, !.ret = page]
    /\ nops' = nops + 1
    /\ UNCHANGED <<cache, now, posts, events, stored, cronTask, ingested, pending>>

ListSorts == {"-createdAt", "createdAt"}
ListLimits == {1, 2}

InitList ==
    /\ cache = <<>>
    /\ stored = <<>>
    /\ now = T0
    /\ last = NoOp
    /\ nops = 0
    /\ events = {}
    /\ posts \in [PostIds -> {NoPost} \cup
                    [userId : Users, platform : Platforms, status : Statuses,
                     publishedAt : {NoDate}]]
    /\ site \in [user : {"u1"}, status : {"any", "published"}, sort : ListSorts,
                 limit : ListLimits, cursor : {"none"}, seen : {<<>>}, finished : {FALSE}]
    /\ Boot

NextList == GetAllPosts

SpecList == InitList /\ [][NextList]_vars

(***************************************************************************)
(* getPostPerformance step by step. getOrSetCache awaits fetchFn between    *)
(* its cache.get and its cache.set, so other requests, engagement writes    *)
(* and invalidations run while a miss is in flight. `pending` holds the     *)
(* calls in flight; the engagement write is one that goes through the       *)
(* schema's findOneAndUpdate hook.                                          *)
(***************************************************************************)
\* getOrSetCache up to its await: cache.get, and on a hit the return.
PerfBegin(p) ==
    LET key == PerfKey(p)
        cached == CacheGet(cache, key, now)
    IN  /\ cache' = CacheAfterGet(cache, key, now)
        /\ IF Truthy(cached)
           THEN /\ pending' = pending
                /\ last' = CallObs("getPostPerformance", key, Undefined,
                                   [ret |-> cached, computed |-> FALSE, err |-> FALSE])
           ELSE /\ pending' = pending \cup {[call |-> nops, postId |-> p, phase |-> "fetching",
                                             out |-> Undefined]}
                /\ last' = PlainObs("perfBegin", key)
        /\ nops' = nops + 1
        /\ UNCHANGED <<now, posts, events, stored, site, cronTask, ingested>>

\* fetchFn of a call in flight reads the post and aggregates its events.
PerfRead(c) ==
    /\ c \in pending /\ c.phase = "fetching"
    /\ pending' = (pending \ {c}) \cup
                    {[c EXCEPT !.phase = "fetched", !.out = PerfCompute(c.postId, now)]}
    /\ last' = PlainObs("perfRead", PerfKey(c.postId))
    /\ UNCHANGED <<cache, now, posts, events, stored, nops, site, cronTask, ingested>>

\* fetchFn has resolved: cache.set(key, data, ttl) and the return of data; a
\* fetchFn that threw stores nothing.
PerfFinish(c) ==
    LET key == PerfKey(c.postId)
    IN  /\ c \in pending /\ c.phase = "fetched"
        /\ pending' = pending \ {c}
        /\ cache' = IF c.out = Throw THEN cache ELSE CacheSet(cache, key, c.out, PerfTTL, now)
        /\ last' = CallObs("perfFinish", key, c.out,
                           [ret |-> IF c.out = Throw THEN Undefined ELSE c.out,
                            computed |-> TRUE, err |-> c.out = Throw])
        /\ stored' = StoredAfterCall(key, PerfTTL,
                                     [ret |-> c.out, computed |-> TRUE, err |-> c.out = Throw])
        /\ UNCHANGED <<now, posts, events, nops, site, cronTask, ingested>>

\* An engagement write for post p through Engagement.findOneAndUpdate with
\* upsert, and the post hook that follows it: delCache of the post's key.
EngagementWrite(p, w) ==
    LET inc == Increment(w, Multiplier(posts[p].publishedAt, now))
    IN  /\ events' = Upsert(events, p, inc, now)
        /\ ingested' = [ingested EXCEPT ![p] = BagAdd(@, inc)]
        /\ cache' = DelCacheOf(cache, HookKey(p))
        /\ stored' = StoredAfterInval(PerfKey(p))
        /\ last' = [PlainObs("engagementWrite", PerfKey(p)) EXCEPT !.changed = {p}]
        /\ nops' = nops + 1
        /\ UNCHANGED <<now, posts, site, cronTask, pending>>

InitRace ==
    /\ cache = <<>>
    /\ stored = <<>>
    /\ last = NoOp
    /\ nops = 0
    /\ site = [key |-> <<>>, ttl |-> 0]
    /\ events = {}
    /\ now = T0
    /\ \E second \in {NoPost, [userId |-> "u2", platform |-> "twitter", status |-> "published",
                               publishedAt |-> NoDate]} :
        posts = [p \in PostIds |->
                   IF p = "p1"
                   THEN [userId |-> "u1", platform |-> "twitter", status |-> "published",
                         publishedAt |-> NoDate]
                   ELSE second]
    /\ Boot

NextRace ==
    \/ /\ nops < MaxSteps
       /\ \E p \in Published : PerfBegin(p)
    \/ /\ nops < MaxSteps
       /\ \E p \in Published, w \in SimDraws : EngagementWrite(p, w)
    \/ \E c \in pending : PerfRead(c)
    \/ \E c \in pending : PerfFinish(c)

SpecRace == InitRace /\ [][NextRace]_vars

(***************************************************************************)
(* Top posts. deletePost removes the post and leaves its engagement events  *)
(* in the store.                                                            *)
(***************************************************************************)
\* The $match, $group and $project stages of getTopPosts: one row per postId
\* among the account's events.
TopRows(docs, u) ==
    LET hit == {d \in docs : d.userId = u}
        Row(p) ==
            LET grp == {d \in hit : d.postId = p}
                e == SumOver(grp, "likes") + SumOver(grp, "comments") + SumOver(grp, "shares")
                i == SumOver(grp, "impressions")
            IN  [postId |-> p, totalEngagement |-> e,
                 engagementRate |-> IF i = 0 THEN F(0, 1) ELSE F(e * 100, i)]
    IN  {Row(p) : p \in {d.postId : d \in hit}}

\* Whether row x may stand before row y after
\* $sort { engagementRate: -1, totalEngagement: -1 }.
TopBefore(x, y) ==
    IF x.engagementRate = y.engagementRate
    THEN x.totalEngagement >= y.totalEngagement
    ELSE FLeq(y.engagementRate, x.engagementRate)

\* $sort and $limit: every order the sort may produce, cut to `limit` rows.
TopSorted(rows, limit) ==
    LET n == Cardinality(rows)
        k == IF n < limit THEN n ELSE limit
        all == {s \in [1..n -> rows] :
                  /\ \A i, j \in 1..n : i # j => s[i] # s[j]
                  /\ \A i \in 1..n : \A j \in i..n : TopBefore(s[i], s[j])}
    IN  {SubSeq(s, 1, k) : s \in all}

\* $lookup from posts and $unwind "$post": a row whose post is gone yields
\* nothing; the final $project keeps the post and the two figures.
TopJoin(rows) ==
    LET kept == SelectSeq(rows, LAMBDA r : posts[r.postId] # NoPost)
    IN  [tag |-> "array",
         items |-> [i \in 1..Len(kept) |->
                      [postId |-> kept[i].postId, post |-> posts[kept[i].postId],
                       totalEngagement |-> kept[i].totalEngagement,
                       engagementRate |-> kept[i].engagementRate]]]

\* What the fetch function of getTopPosts(userId, limit) can yield.
TopPostsCompute(u, limit) == {TopJoin(rows) : rows \in TopSorted(TopRows(events, u), limit)}

GetTopPosts(u, limit) ==
    \E out \in TopPostsCompute(u, limit) :
        LET key == TopPostsKey(u, ToString(limit))
            r == GetOrSetCache(cache, key, TopPostsTTL, out, now)
        IN  /\ nops < MaxOps
            /\ cache' = r.cache
            /\ last' = CallObs("getTopPosts", key, out, r)
            /\ stored' = StoredAfterCall(key, TopPostsTTL, r)
            /\ nops' = nops + 1
            /\ UNCHANGED <<now, posts, events, site, cronTask, ingested, pending>>

TopLimits == {1, 2}

InitTop ==
    /\ cache = <<>>
    /\ stored = <<>>
    /\ now = T0
    /\ last = NoOp
    /\ nops = 0
    /\ site = [key |-> <<>>, ttl |-> 0]
    /\ \E owner \in Users :
        /\ posts = [p \in PostIds |-> [userId |-> IF p = "p1" THEN "u1" ELSE owner,
                                       platform |-> "twitter", status |-> "published",
                                       publishedAt |-> NoDate]]
        /\ \E pick \in [PostIds -> {<<>>} \cup RandDraws] :
            events = {Doc(p, posts[p].userId, T0, UTCHours(T0), UTCDay(T0), pick[p]) :
                      p \in {q \in PostIds : pick[q] # <<>>}}
    /\ Boot

NextTop ==
    \/ \E u \in Users, p \in PostIds : DeletePost(u, p)
    \/ \E k \in TopLimits : GetTopPosts("u1", k)

SpecTop == InitTop /\ [][NextTop]_vars

(***************************************************************************)
(* The dashboard. getDashboardOverview issues six sub-queries at once and   *)
(* assembles their answers; three of them are the cached services           *)
(* getTopPosts, calculateEngagementTrends and calculateOptimalPostingTimes. *)
(* A dashboard value carries, as history, the instant at which each of its  *)
(* components was read from the store (readAt).                             *)
(***************************************************************************)
Null == [tag |-> "null"]
Subqueries == {"status", "inRange", "allTime", "topPosts", "chart", "optimal"}
DashRanges == {"7d", "30d"}
DashTopLimit == 5

\* const days = range === '7d' ? 7 : range === '90d' ? 90 : 30
DashDays(range) ==
    CASE range = "7d" -> 7
      [] range = "90d" -> 90
      [] OTHER -> WindowDays

\* `${days}d`
DaysPeriod(days) ==
    CASE days = 7 -> "7d"
      [] days = 90 -> "90d"
      [] OTHER -> "30d"

\* Post.aggregate: the account's posts counted by status.
PostsByStatus(u) ==
    LET count(st) == Cardinality({p \in PostIds : /\ posts[p] # NoPost
                                                   /\ posts[p].userId = u
                                                   /\ posts[p].status = st})
    IN  [published |-> count("published"), scheduled |-> count("scheduled"),
         draft |-> count("draft")]

\* Engagement.aggregate within the range: one row per platform of the
\* account's events with start <= timestamp <= to.
EngagementByPlatform(docs, u, start, to) ==
    LET hit == {d \in docs : d.userId = u /\ d.timestamp >= start /\ d.timestamp <= to}
    IN  {[platform |-> pf,
          likes |-> SumOver({d \in hit : d.platform = pf}, "likes"),
          comments |-> SumOver({d \in hit : d.platform = pf}, "comments"),
          shares |-> SumOver({d \in hit : d.platform = pf}, "shares")]
         : pf \in {d.platform : d \in hit}}

\* engagementAllTimeAgg[0]?.total || 0
EngagementAllTime(docs, u) ==
    LET hit == {d \in docs : d.userId = u}
    IN  SumOver(hit, "likes") + SumOver(hit, "comments") + SumOver(hit, "shares")

RECURSIVE RowsTotal(_)
\* engagementByPlatform.reduce((sum, e) => sum + e.likes + e.comments + e.shares, 0)
RowsTotal(rows) ==
    IF rows = {} THEN 0
    ELSE LET r == CHOOSE x \in rows : TRUE
         IN  r.likes + r.comments + r.shares + RowsTotal(rows \ {r})

\* The history kept for a key after a call made at instant t.
StoredPut(st, key, ttl, r, t) ==
    IF r.computed /\ ~r.err
    THEN Put(st, key, [v |-> r.ret, at |-> t, ttl |-> ttl, inval |-> FALSE])
    ELSE st

\* A cached service called from the dashboard at instant t, `outs` being what
\* its fetch function can yield: the cache and the history afterwards, the
\* answer, and the instant the answer was read from the store.
Nested(c, st, key, ttl, outs, t) ==
    IF Truthy(CacheGet(c, key, t))
    THEN {[cache |-> CacheAfterGet(c, key, t), stored |-> st,
           val |-> CacheGet(c, key, t), readAt |-> st[key].at]}
    ELSE {LET r == GetOrSetCache(c, key, ttl, out, t)
          IN  [cache |-> r.cache, stored |-> StoredPut(st, key, ttl, r, t),
               val |-> r.ret, readAt |-> t]
          : out \in outs}

\* One sub-query of a dashboard computation started at instant `at` by
\* account u, answered at instant t.
DashSub(q, u, range, at, c, st, t) ==
    LET days == DashDays(range)
        plain(v) == {[cache |-> c, stored |-> st, val |-> v, readAt |-> t]}
    IN  CASE q = "status" -> plain(PostsByStatus(u))
          [] q = "inRange" ->
                plain(EngagementByPlatform(events, u, at - days * SecondsPerDay, at))
          [] q = "allTime" -> plain(EngagementAllTime(events, u))
          [] q = "topPosts" ->
                Nested(c, st, TopPostsKey(u, ToString(DashTopLimit)), TopPostsTTL,
                       TopPostsCompute(u, DashTopLimit), t)
          [] q = "chart" ->
                Nested(c, st, TrendsKey(u, DaysPeriod(days), "daily", "engagement"), TrendsTTL,
                       {TrendsCompute(u, DaysPeriod(days), "daily", "engagement", t)}, t)
          [] q = "optimal" ->
                Nested(c, st, OptimalKey(u), OptimalTTL,
                       {OptimalSlots(data) : data \in SortedRows(OptimalRows(events, u, t))}, t)

\* The object getDashboardOverview's fetch function returns, from the answers
\* of the six sub-queries. toFixed(1) rounds to tenths.
DashResult(res, readAt) ==
    LET allTime == res["allTime"]
        rows == res["inRange"]
        inRange == RowsTotal(rows)
        first == CHOOSE r \in rows : \A x \in rows :
                     x.likes + x.comments + x.shares <= r.likes + r.comments + r.shares
        oldest(a, b) == IF a < b THEN a ELSE b
    IN  [tag |-> "object",
         totals |-> [posts |-> res["status"],
                     engagement |-> [allTime |-> allTime, lastPeriod |-> inRange],
                     avgEngagementRate |->
                         IF allTime = 0 THEN F(0, 1)
                         ELSE F(RoundMul(1000 * inRange, F(1, allTime)), 10)],
         bestPlatform |-> IF rows = {} THEN Null
                          ELSE [platform |-> first.platform,
                                engagement |-> first.likes + first.comments + first.shares],
         topPosts |-> res["topPosts"],
         chart |-> res["chart"].data,
         optimalPostingTimes |-> res["optimal"],
         readAt |-> [totals |-> oldest(readAt["status"],
                                       oldest(readAt["inRange"], readAt["allTime"])),
                     topPosts |-> readAt["topPosts"], chart |-> readAt["chart"],
                     optimalPostingTimes |-> readAt["optimal"]]]

\* getOrSetCache of getDashboardOverview up to its await: cache.get, on a hit
\* the return, on a miss the six sub-queries are issued.
DashBegin(u, range) ==
    LET key == DashboardKey(u, range)
        cached == CacheGet(cache, key, now)
    IN  /\ cache' = CacheAfterGet(cache, key, now)
        /\ IF Truthy(cached)
           THEN /\ pending' = pending
                /\ last' = CallObs("getDashboardOverview", key, Undefined,
                                   [ret |-> cached, computed |-> FALSE, err |-> FALSE])
           ELSE /\ pending' = pending \cup
                      {[call |-> nops, user |-> u, range |-> range, at |-> now,
                        todo |-> Subqueries, res |-> <<>>, readAt |-> <<>>]}
                /\ last' = PlainObs("dashBegin", key)
        /\ nops' = nops + 1
        /\ UNCHANGED <<now, posts, events, stored, site, cronTask, ingested>>

\* The store or a cached service answers one sub-query of a call in flight.
DashRead(c, q) ==
    /\ c \in pending /\ q \in c.todo
    /\ \E a \in DashSub(q, c.user, c.range, c.at, cache, stored, now) :
        /\ cache' = a.cache
        /\ stored' = a.stored
        /\ pending' = (pending \ {c}) \cup
                        {[c EXCEPT !.todo = @ \ {q}, !.res = Put(@, q, a.val),
                                   !.readAt = Put(@, q, a.readAt)]}
    /\ last' = PlainObs("dashRead", DashboardKey(c.user, c.range))
    /\ UNCHANGED <<now, posts, events, nops, site, cronTask, ingested>>

\* Promise.all has resolved: the result is assembled, stored and returned.
DashFinish(c) ==
    LET key == DashboardKey(c.user, c.range)
        out == DashResult(c.res, c.readAt)
        r == [ret |-> out, computed |-> TRUE, err |-> FALSE]
    IN  /\ c \in pending /\ c.todo = {}
        /\ pending' = pending \ {c}
        /\ cache' = CacheSet(cache, key, out, DashboardTTL, now)
        /\ stored' = StoredPut(stored, key, DashboardTTL, r, now)
        /\ last' = CallObs("getDashboardOverview", key, out, r)
        /\ UNCHANGED <<now, posts, events, nops, site, cronTask, ingested>>

InitDash ==
    /\ cache = <<>>
    /\ stored = <<>>
    /\ last = NoOp
    /\ nops = 0
    /\ site = [key |-> <<>>, ttl |-> 0]
    /\ events = {}
    /\ now = T0
    /\ \E second \in {NoPost, [userId |-> "u1", platform |-> "twitter", status |-> "draft",
                               publishedAt |-> NoDate]} :
        posts = [p \in PostIds |->
                   IF p = "p1"
                   THEN [userId |-> "u1", platform |-> "twitter", status |-> "published",
                         publishedAt |-> NoDate]
                   ELSE second]
    /\ Boot

NextDash ==
    \/ /\ nops < MaxSteps
       /\ pending = {}
       /\ DashBegin("u1", "30d")
    \/ /\ nops < MaxSteps
       /\ \E w \in SimDraws : Tick([p \in PostIds |-> w], TickOk(Published))
    \/ \E c \in pending, q \in Subqueries : DashRead(c, q)
    \/ \E c \in pending : DashFinish(c)

SpecDash == InitDash /\ [][NextDash]_vars

(***************************************************************************)
(* The dashboard and the services it shares cache entries with, called one  *)
(* after the other while the clock advances. The events of the model carry  *)
(* no engagement, so that their recency weight (2^x, irrational at most     *)
(* ages) does not enter any figure.                                         *)
(***************************************************************************)
\* getDashboardOverview(userId, range) with its sub-queries answered at once.
GetDashboardOverview(u, range) ==
    LET key == DashboardKey(u, range)
        cached == CacheGet(cache, key, now)
        c0 == CacheAfterGet(cache, key, now)
        plain(q) == CHOOSE a \in DashSub(q, u, range, now, c0, stored, now) : TRUE
    IN  /\ nops < MaxOps
        /\ IF Truthy(cached)
           THEN /\ cache' = c0
                /\ stored' = stored
                /\ last' = CallObs("getDashboardOverview", key, Undefined,
                                   [ret |-> cached, computed |-> FALSE, err |-> FALSE])
           ELSE \E top \in DashSub("topPosts", u, range, now, c0, stored, now) :
                \E chart \in DashSub("chart", u, range, now, top.cache, top.stored, now) :
                \E opt \in DashSub("optimal", u, range, now, chart.cache, chart.stored, now) :
                    LET res == [q \in Subqueries |->
                                  CASE q = "topPosts" -> top.val
                                    [] q = "chart" -> chart.val
                                    [] q = "optimal" -> opt.val
                                    [] OTHER -> plain(q).val]
                        readAt == [q \in Subqueries |->
                                     CASE q = "topPosts" -> top.readAt
                                       [] q = "chart" -> chart.readAt
                                       [] q = "optimal" -> opt.readAt
                                       [] OTHER -> now]
                        out == DashResult(res, readAt)
                        r == [ret |-> out, computed |-> TRUE, err |-> FALSE]
                    IN  /\ cache' = CacheSet(opt.cache, key, out, DashboardTTL, now)
                        /\ stored' = StoredPut(opt.stored, key, DashboardTTL, r, now)
                        /\ last' = CallObs("getDashboardOverview", key, out, r)
        /\ nops' = nops + 1
        /\ UNCHANGED <<now, posts, events, site, cronTask, ingested, pending>>

InitFresh ==
    /\ cache = <<>>
    /\ stored = <<>>
    /\ last = NoOp
    /\ nops = 0
    /\ now = T0
    /\ site \in [key : {<<>>}, ttl : {0}, period : DashRanges, granularity : {"daily"},
                 metric : {"engagement"}]
    /\ posts = [p \in PostIds |-> [userId |-> "u1", platform |-> "twitter",
                                   status |-> "published", publishedAt |-> NoDate]]
    /\ \E pick \in SUBSET PostIds :
         events = {Doc(p, "u1", T0, UTCHours(T0), UTCDay(T0), <<0, 0, 0, 0, 100>>) : p \in pick}
    /\ Boot

NextFresh ==
    /\ nops < MaxSteps
    /\ \/ \E range \in DashRanges : GetDashboardOverview("u1", range)
       \/ GetTopPosts("u1", DashTopLimit)
       \/ GetEngagmentTrends("u1")
       \/ CalculateOptimalPostingTimes("u1")
       \/ \E t \in ClockReadings : Advance(t)

SpecFresh == InitFresh /\ [][NextFresh]_vars

(***************************************************************************)
(* Properties of the accelerator (checked under SpecAccel).                *)
(***************************************************************************)
IsCall == last.op = "getOrSetCache"

\* C1: a second getOrSetCache on a key, made within the TTL window of the value
\* the first call stored and with no invalidation in between, returns that
\* stored value and does not invoke its compute function, whatever value the
\* compute function returned.
C1_SecondCallServedFromCache ==
    (IsCall /\ last.prior # None /\ ~last.prior.inval
            /\ last.at < last.prior.at + last.prior.ttl)
        => (~last.computed /\ last.ret = last.prior.v)

\* C4: after delCache with a pattern, no entry whose key the pattern covers is
\* left, and a getOrSetCache that follows on such a key invokes compute and
\* returns the new value.
C4_PatternInvalidates ==
    /\ last.op = "delCache" => \A k \in Keys : Matches(last.key, k) => k \notin DOMAIN cache
    /\ (IsCall /\ last.prevOp = "delCache" /\ Matches(last.prevKey, last.key))
          => (last.computed /\ (~last.err => last.ret = last.out))

\* C5: when the compute function of a miss throws, the caller gets the error,
\* the call stores nothing under the key (the key holds what it held before the
\* call, nothing after a miss on an absent or expired key), and the next call
\* on the same key invokes compute again.
C5_FailedComputeLeavesNoEntry ==
    /\ (IsCall /\ last.computed /\ last.out = Throw)
          => /\ last.err
             /\ At(cache, last.key) \in {NoEntry, last.before}
             /\ last.key \in DOMAIN cache => Alive(last.before, last.at)
             /\ At(stored, last.key) = last.prior
    /\ (IsCall /\ last.prevOp = "getOrSetCache" /\ last.prevKey = last.key /\ last.prevErr)
          => last.computed

C5_Witness ==
    /\ IsCall /\ last.prevOp = "getOrSetCache" /\ last.prevKey = last.key /\ last.prevErr
    /\ last.computed /\ last.before = NoEntry

IsPerf == last.op = "getPostPerformance"
PerfPost == last.key[3]

\* C2: after a write to the Engagement collection that changes the metrics of
\* post p (the simulator's bulkWrite included) the cached performance entry of
\* p is gone, and the getPostPerformance(p) that follows recomputes.
C2_WriteEvictsPerformanceEntry ==
    /\ last.op = "tick" => \A p \in last.changed : PerfKey(p) \notin DOMAIN cache
    /\ (IsPerf /\ last.prevOp = "tick" /\ PerfPost \in last.prevChanged) => last.computed

\* C3: once the performance key of post p has been invalidated, a
\* getPostPerformance(p) does not return a value stored before the
\* invalidation: it invokes the computation again and returns its result.
C3_NoValueFromBeforeInvalidation ==
    (IsPerf /\ last.prior # None /\ last.prior.inval)
        => (last.computed /\ (~last.err => last.ret = last.out))

C3_Witness ==
    /\ IsPerf /\ last.prior # None /\ last.prior.inval /\ last.prevOp = "invalidateCache"
    /\ last.computed /\ ~last.err /\ last.ret # last.prior.v

\* C7: getPostPerformance(p) fails with "Post not found" whenever post p does
\* not exist when it is called, also when p was queried before and then deleted.
C7_NotFoundWhenPostMissing ==
    (IsPerf /\ posts[PerfPost] = NoPost) => last.err

\* C8: the performance computed for a post whose events sum to (likes,
\* comments, shares, clicks, impressions) has engagementRate =
\* (likes+comments+shares)/impressions*100 and clickThroughRate =
\* clicks/impressions*100, both 0 when impressions is 0, and performanceScore =
\* engagementRate*0.4 + clickThroughRate*0.3 + shares*0.3; sums (10, 5, 5, 20,
\* 100) give 20, 20 and 15.5.
C8_Sums ==
    LET mine == {d \in events : d.postId = PerfPost}
    IN  <<SumOver(mine, "likes"), SumOver(mine, "comments"), SumOver(mine, "shares"),
          SumOver(mine, "clicks"), SumOver(mine, "impressions")>>

IsCmp == last.op = "getPerformanceComparison"

\* One reported growth value against the totals reported beside it.
C10_GrowthRule(g, curr, prev) ==
    /\ g.d > 0
    /\ (prev = 0 /\ curr = 0) => g.n = 0
    /\ (prev = 0 /\ curr > 0) => (g.n = 100 /\ g.d = 1)
    /\ prev # 0 => g.n * prev = (curr - prev) * 100 * g.d

\* C10: each growth value of a period comparison (engagement, clicks,
\* impressions) is 0 when the previous and the current total are both 0, 100
\* when the previous total is 0 and the current one is positive, and
\* (current - previous)/previous*100 otherwise.
C10_GrowthValues ==
    (IsCmp /\ ~last.err) =>
        LET c == last.ret.currentPeriod.totals
            q == last.ret.previousPeriod.totals
            g == last.ret.growth
        IN  /\ C10_GrowthRule(g.engagement, c.totalEngagement, q.totalEngagement)
            /\ C10_GrowthRule(g.clicks, c.clicks, q.clicks)
            /\ C10_GrowthRule(g.impressions, c.impressions, q.impressions)

C10_Witness ==
    /\ IsCmp /\ last.computed
    /\ last.ret.previousPeriod.totals.totalEngagement = 0
    /\ last.ret.currentPeriod.totals.totalEngagement = 50
    /\ last.ret.growth.engagement = [n |-> 100, d |-> 1]

\* C13: for a comparison over [start, end] with start <= end, the previous
\* period has prevEnd = start - 1 ms and prevEnd - prevStart = end - start: the
\* two windows have the same length, share no instant and leave none between
\* them, so every event of the account from prevStart to end is counted in
\* exactly one of the two periods.
C13_PreviousPeriodAdjacent ==
    (IsCmp /\ ~last.err
       /\ last.ret.currentPeriod.startDate <= last.ret.currentPeriod.endDate) =>
        LET c == last.ret.currentPeriod
            q == last.ret.previousPeriod
            u == last.key[2]
            both == WindowTotals(events, u, q.startDate, c.endDate)
        IN  /\ q.endDate = c.startDate - 1
            /\ q.endDate - q.startDate = c.endDate - c.startDate
            /\ \A m \in {"likes", "comments", "shares", "clicks", "impressions"} :
                  c.totals[m] + q.totals[m] = both[m]

C13_Witness ==
    /\ IsCmp /\ last.computed
    /\ last.ret.currentPeriod.startDate < last.ret.currentPeriod.endDate
    /\ \E d \in events : d.userId = "u1" /\ d.timestamp = last.ret.previousPeriod.endDate
    /\ \E d \in events : d.userId = "u1" /\ d.timestamp = last.ret.currentPeriod.startDate
    /\ last.ret.previousPeriod.totals.impressions > 0
    /\ last.ret.currentPeriod.totals.impressions > 0

(***************************************************************************)
(* Properties of the optimal posting times (checked under SpecOpt).        *)
(***************************************************************************)
IsOpt == last.op = "calculateOptimalPostingTimes"

\* C9: in every returned set of optimal-time buckets each confidenceScore is
\* a number in [0,1], and a bucket with the maximum filtered mean has
\* confidenceScore exactly min(1, sampleSize/10), also when every event of
\* the window has zero likes, comments and shares.
C9_ConfidenceInUnitInterval ==
    (IsOpt /\ ~last.err) =>
        LET items == last.ret.items
        IN  \A i \in 1..Len(items) :
              LET c == items[i].confidenceScore
              IN  /\ c.d > 0 /\ c.n >= 0 /\ c.n <= c.d
                  /\ (\A j \in 1..Len(items) :
                        FLeq(items[j].averageEngagement, items[i].averageEngagement))
                     => c = (IF items[i].sampleSize >= 10 THEN F(1, 1)
                             ELSE F(items[i].sampleSize, 10))

(***************************************************************************)
(* Properties of the engagement trends (checked under SpecTrend).          *)
(***************************************************************************)
IsTrend == last.op = "getEngagmentTrends"

\* C11: summary.growth of a trends result is 100 when the first bucket's total
\* is 0 and the last bucket's total is positive, and 0 when both are 0.
C11_TrendGrowthFromZero ==
    (IsTrend /\ ~last.err /\ Len(last.ret.data) >= 1) =>
        LET data == last.ret.data
            first == data[1].value
            latest == data[Len(data)].value
            g == last.ret.summary.growth
        IN  /\ (first = 0 /\ latest > 0) => g = [n |-> 100, d |-> 1]
            /\ (first = 0 /\ latest = 0) => g = [n |-> 0, d |-> 1]

\* C12: summary.peak of a trends result over a non-empty bucket series is one
\* of the returned buckets, the first in time among those with the maximum
\* total, also when all bucket totals are 0.
C12_PeakIsFirstMaximum ==
    (IsTrend /\ ~last.err /\ Len(last.ret.data) >= 1) =>
        LET data == last.ret.data
            peak == last.ret.summary.peak
        IN  \E i \in 1..Len(data) :
              /\ data[i].date = peak.date /\ data[i].value = peak.value
              /\ \A j \in 1..Len(data) : data[j].value <= data[i].value
              /\ \A j \in 1..(i - 1) : data[j].value < data[i].value

\* A query the interface calls malformed: a period that is not <N>d, a
\* granularity or a metric outside the allowed names.
Malformed(q) ==
    \/ q.period \notin {"1d", "7d", "30d"}
    \/ q.granularity \notin AllowedGran
    \/ q.metric \notin AllowedMetric

\* C14: a malformed trends query is rejected with an error the caller sees,
\* before any cache entry is read or written and before the store is queried.
C14_MalformedRejected ==
    (IsTrend /\ Malformed(site)) =>
        (last.err /\ ~last.computed /\ cache = <<>>)

(***************************************************************************)
(* Properties of the simulator (checked under SpecSim).                    *)
(***************************************************************************)
IsTick == last.op = "tick"

\* C15: when the write for one post fails within a tick, the increments of
\* the other published posts of that tick are applied all the same.
C15_OtherPostsStillWritten ==
    (IsTick /\ last.tick.kind = "writeFailed") =>
        last.tick.done = last.tick.targets \ {last.tick.failed}

\* C16: a tick that fails (the post lookup or the batch write throws) logs the
\* error once and lets nothing escape: it does not write a second time, the
\* task stays scheduled, and the tick after a failed one runs and attempts its
\* writes.
C16_FailedTickIsContained ==
    /\ cronTask = "scheduled"
    /\ (IsTick /\ last.tick.kind # "ok") =>
          (~last.err /\ last.tick.logged = 1 /\ last.tick.writes <= 1)
    /\ (IsTick /\ last.tick.after \in {"lookupFailed", "writeFailed"}
          /\ last.tick.kind # "lookupFailed" /\ last.tick.targets # {})
          => last.tick.writes = 1

C16_Witness ==
    /\ IsTick /\ last.tick.after = "writeFailed"
    /\ last.tick.kind = "ok" /\ last.tick.done # {} /\ last.tick.writes = 1

\* The multiplier a tick at instant t is to use for a post with the given
\* publishedAt, the boost lasting from `from` to `to` (seconds of the UTC day,
\* `to` included): time * day * age, the age in days being max(0, age) and a
\* post without publishedAt having the age multiplier 1.
C17_Expected(publishedAt, t, from, to) ==
    LET sod == t % SecondsPerDay
        day == ((t \div SecondsPerDay) + 4) % 7
        time == IF sod >= from /\ sod <= to THEN [n |-> 7, d |-> 5] ELSE [n |-> 9, d |-> 10]
        week == IF day = 0 \/ day = 6 THEN [n |-> 7, d |-> 10] ELSE [n |-> 1, d |-> 1]
        age == IF publishedAt = NoDate THEN 1
               ELSE IF t - publishedAt.t <= 0 THEN 2 ELSE 1
    IN  <<time.n * week.n * age, time.d * week.d>>

C18_BucketFieldsFixed ==
    /\ [](\A d \in events : d.hourOfDay \in 0..23 /\ d.dayOfWeek \in 0..6)
    /\ [][\A d \in events : \A e \in events' :
            e.id = d.id => (e.hourOfDay = d.hourOfDay /\ e.dayOfWeek = d.dayOfWeek)]_vars

C18_Witness ==
    /\ IsTick /\ last.tick.done # {}
    /\ \E d \in events : d.postId \in last.tick.done /\ d.timestamp < last.at
                          /\ d.hourOfDay # (last.at \div SecondsPerHour) % 24
    /\ \E d \in events : d.postId \in last.tick.done /\ d.timestamp = last.at

RECURSIVE BagTotal(_, _)
\* The sum of metric m over a bag of increments.
BagTotal(b, m) ==
    IF DOMAIN b = {} THEN 0
    ELSE LET x == CHOOSE y \in DOMAIN b : TRUE
         IN  b[x] * x[m] + BagTotal(Drop(b, x), m)

\* C19: a computed post performance is a function of the bag of increments
\* ingested for the post (of their sums), whatever the order and the events
\* they were merged into: total engagement, the two rates and the score.
C19_PerformanceOfBag ==
    (IsPerf /\ last.computed /\ ~last.err) =>
        LET b == ingested[PerfPost]
            E == BagTotal(b, "likes") + BagTotal(b, "comments") + BagTotal(b, "shares")
            S == BagTotal(b, "shares")
            K == BagTotal(b, "clicks")
            I == BagTotal(b, "impressions")
            er == last.ret.engagementRate
            ctr == last.ret.clickThroughRate
            sc == last.ret.performanceScore
        IN  /\ last.ret.totalEngagement = E
            /\ er = (IF I = 0 THEN F(0, 1) ELSE F(E * 100, I))
            /\ ctr = (IF I = 0 THEN F(0, 1) ELSE F(K * 100, I))
            /\ sc = (IF I = 0 THEN F(3 * S, 10)
                     ELSE F(400 * E + 300 * K + 3 * S * I, 10 * I))

C19_Witness ==
    /\ IsPerf /\ last.computed /\ ~last.err
    /\ Cardinality(DOMAIN ingested[PerfPost]) >= 2
    /\ last.ret.totalEngagement > 0

(***************************************************************************)
(* Properties of overlapping ticks (checked under SpecOverlap).            *)
(***************************************************************************)
\* C20: at every moment the store holds at most one engagement event per
\* (post, hourOfDay, dayOfWeek), also when two ticks overlap and upsert the
\* same key concurrently.
C20_OneEventPerKey ==
    \A d \in events : \A e \in events :
        (d.postId = e.postId /\ d.hourOfDay = e.hourOfDay /\ d.dayOfWeek = e.dayOfWeek)
            => d = e

\* The operations of post p the store has not applied yet.
InFlight(p) == {o \in pending : o.postId = p}

\* C21: no increment is lost or applied twice. Once the store has applied every
\* operation issued for a post, the sum of each metric over all events of the
\* post equals the sum of the increments the ticks issued for it, whatever the
\* interleaving of the ticks' upserts.
C21_NoIncrementLost ==
    \A p \in PostIds :
        InFlight(p) = {} =>
            \A m \in Metrics :
                SumOver({d \in events : d.postId = p}, m) = BagTotal(ingested[p], m)

\* Two ticks overlapped on one key: both upserts found no document and both
\* inserted one, and the two events together hold what was issued.
C21_Witness ==
    /\ last.op = "storeInsert" /\ pending = {}
    /\ \E d \in events : \E e \in events :
          /\ d # e /\ d.postId = "p1" /\ e.postId = "p1"
          /\ d.hourOfDay = e.hourOfDay /\ d.dayOfWeek = e.dayOfWeek
          /\ d.metrics # e.metrics
    /\ BagTotal(ingested["p1"], "likes") > 0

(***************************************************************************)
(* Properties of the stored metrics (checked under SpecSim).               *)
(***************************************************************************)
\* C22: the five metrics of every event are whole numbers >= 0 and no
\* operation lowers a metric of an event that exists; every increment the
\* generator can issue, for every draw and every multiplier, is a whole
\* number >= 0.
C22_MetricsNeverDecrease ==
    /\ [](\A d \in events : \A m \in Metrics : d.metrics[m] \in Nat)
    /\ [](\A p \in Published : \A w \in RandDraws \cup SimDraws : \A m \in Metrics :
            AgeKnown(posts[p].publishedAt, now) =>
                Increment(w, Multiplier(posts[p].publishedAt, now))[m] \in Nat)
    /\ [][\A d \in events : \A e \in events' :
            e.id = d.id => \A m \in Metrics : e.metrics[m] >= d.metrics[m]]_vars

\* A tick on a Sunday evening (multiplier 0.63) added to an event that an
\* earlier tick had written.
C22_Witness ==
    /\ IsTick /\ last.tick.done # {}
    /\ \E p \in last.tick.done : last.tick.multiplier[p] = [n |-> 63, d |-> 100]
    /\ \E d \in events :
          /\ d.postId \in last.tick.done /\ d.timestamp = last.at
          /\ d.metrics["likes"] = RoundMul(11, F(63, 100)) + RoundMul(50, F(63, 100))

\* C24: what a time window [start, end] counts is settled once the window has
\* passed: a tick that runs after `end` leaves the sums over every such window
\* as they were, also a tick in the same UTC hour and day of a later week.
C24_PastWindowsKeepTheirCounts ==
    [][\A u \in Users : \A s \in SimInstants : \A e \in SimInstants :
         (s <= e /\ e < now') =>
             WindowTotals(events', u, s, e) = WindowTotals(events, u, s, e)]_vars

(***************************************************************************)
(* Properties of the post controller (checked under SpecPosts).            *)
(***************************************************************************)
\* C23: the lifecycle of a post is one-way. Once its status is published or
\* failed no operation changes the status, and once its publishedAt is set no
\* operation changes it.
C23_LifecycleOneWay ==
    [][\A p \in PostIds :
         (posts[p] # NoPost /\ posts'[p] # NoPost) =>
             /\ posts[p].status \in {"published", "failed"}
                    => posts'[p].status = posts[p].status
             /\ posts[p].publishedAt # NoDate
                    => posts'[p].publishedAt = posts[p].publishedAt]_vars

\* C29: a request of account B never changes or reveals a post of account A.
\* A post is modified or removed only by a request whose caller is the post's
\* userId, and getPostById answers with a post only to its owner.
C29_OnlyOwnerTouchesPost ==
    /\ [][\A p \in PostIds :
            (posts[p] # NoPost /\ posts'[p] # posts[p]) => last'.caller = posts[p].userId]_vars
    /\ []((last.op = "getPostById" /\ ~last.err) => last.ret.userId = last.caller)

(***************************************************************************)
(* Properties of the listing (checked under SpecList).                     *)
(***************************************************************************)
\* C30: with the posts unchanged, a client that starts without a cursor and
\* feeds each nextCursor into the next call is given no post twice, and when
\* the empty page arrives it has been given every post that matches its
\* filter, for the default sort and for any other sort value.
C30_EveryPostOnce ==
    /\ \A i \in 1..Len(site.seen) : \A j \in 1..Len(site.seen) :
           site.seen[i] = site.seen[j] => i = j
    /\ site.finished =>
           {site.seen[i] : i \in 1..Len(site.seen)}
               = ListFilter(site.user, site.status, "none")

(***************************************************************************)
(* Properties of concurrent requests (checked under SpecRace).             *)
(***************************************************************************)
\* C25: every engagement write is followed at once by the invalidation of the
\* post's performance key, so a getPostPerformance(p) that starts when the
\* write and its invalidation are complete returns totals that include the
\* write, also when another miss for p was in flight during the write: a call
\* answered from the cache returns the totals the store holds at that moment.
C25_HitIncludesCompletedWrites ==
    (last.op = "getPostPerformance" /\ ~last.computed /\ ~last.err) =>
        LET p == last.key[3]
            t == PerfTotals(events, p)
        IN  last.ret.totalEngagement = t.likes + t.comments + t.shares

(***************************************************************************)
(* Properties of the top posts (checked under SpecTop).                    *)
(***************************************************************************)
IsTop == last.op = "getTopPosts"

\* The account's posts that exist and have at least one event.
Ranked(u) == {p \in PostIds : posts[p] # NoPost /\ \E d \in events : d.userId = u /\ d.postId = p}

\* C26: a computed getTopPosts(account, K) holds exactly min(K, n) entries, n
\* the number of the account's existing posts with at least one event: posts
\* that exist, each ranked (engagementRate, then totalEngagement, descending)
\* at least as high as every existing post left out, also after posts with
\* events were deleted.
C26_TopOfExistingPosts ==
    (IsTop /\ last.computed /\ ~last.err) =>
        LET u == last.key[2]
            items == last.ret.items
            n == Cardinality(Ranked(u))
            shown == {items[i].postId : i \in 1..Len(items)}
            row(p) == CHOOSE r \in TopRows(events, u) : r.postId = p
        IN  /\ \E k \in TopLimits : /\ last.key[3] = ToString(k)
                                    /\ Len(items) = (IF n < k THEN n ELSE k)
            /\ shown \subseteq Ranked(u)
            /\ \A p \in shown : \A q \in Ranked(u) \ shown : TopBefore(row(p), row(q))

(***************************************************************************)
(* Properties of the dashboard (checked under SpecDash and SpecFresh).     *)
(***************************************************************************)
IsDash == last.op = "getDashboardOverview" /\ ~last.err

\* C27: every dashboard result is a consistent snapshot: the engagement of
\* the last period is at most the all-time engagement and avgEngagementRate is
\* at most 100, also when a tick writes between the sub-queries of the call.
C27_SnapshotConsistent ==
    IsDash =>
        LET t == last.ret.totals
        IN  /\ t.engagement.lastPeriod <= t.engagement.allTime
            /\ FLeq(t.avgEngagementRate, F(100, 1))

\* C28: every component of a dashboard result returned at instant t (totals,
\* topPosts, chart, optimalPostingTimes) was read from the store no more than
\* 300 s before t, whatever dashboard, top-posts, trends and optimal-times
\* calls were made before.
C28_ComponentsFresh ==
    IsDash =>
        \A k \in DOMAIN last.ret.readAt : last.at - last.ret.readAt[k] <= DashboardTTL

====
